---- MODULE Spec2Model ----
(***************************************************************************)
(* HC-SR04 ultrasonic sensor driver (src/hc-sr04.c): the trigger pulse,    *)
(* the two bounded polling waits on the echo line, the conversion of the   *)
(* echo pulse width to centimetres, and the print/pause loop of main().    *)
(*                                                                         *)
(* Time is the 64-bit microsecond counter of the board.  TLC's integers   *)
(* are 32 bits wide, so a time is kept in two limbs: lo is bits 0..15 and  *)
(* hi is bits 16..63.  time_us_32() keeps bits 0..31, and the unsigned     *)
(* 32-bit subtraction of the timeout test is done limb by limb, modulo     *)
(* 2^32, as the machine does it.                                           *)
(***************************************************************************)
EXTENDS Integers, Sequences, FiniteSets, TLC

VARIABLES
    pc,          \* position of the single thread of control (source line)
    now,         \* the hardware microsecond counter (64 bit, two limbs)
    trig,        \* level of the TRIG_PIN output
    trigWrites,  \* levels written to TRIG_PIN since get_reading_sensor() was entered
    start_time,  \* uint32_t start_time                  (get_reading_sensor)
    start,       \* absolute_time_t start                (get_reading_sensor)
    polls,       \* iterations of the current while loop that have run
    echo,        \* what the last gpio_get(ECHO_PIN) returned
    sawHigh,     \* whether a gpio_get(ECHO_PIN) of the first wait has returned high
    duration,    \* int64_t duration                     (get_reading_sensor)
    retSite,     \* source line of the return statement the call left by
    ret,         \* the float the call returned, until main() has taken it
    distance,    \* float distance                       (main)
    console,     \* number of "Distance:" lines printed
    calls,       \* calls of get_reading_sensor() made so far
    waitAt,      \* the full 64-bit counter at the two reads of start_time
    tape,        \* the previous call: what its polls read, and what it returned
    reads        \* what the polls of the running call have read so far

prog == <<pc, now, trig, echo, trigWrites, start_time, start, polls, sawHigh,
          duration, retSite, ret, distance, console, calls, waitAt>>
hist == <<tape, reads>>
vars == <<prog, hist>>

----------------------------------------------------------------------------
(* Bounds of the model. *)

\* iterations of one while loop that may see a short clock step; a later
\* iteration sees a step longer than the timeout
MaxPolls == 3
\* calls of get_reading_sensor() a behaviour follows
MaxCalls == 2

----------------------------------------------------------------------------
(* The microsecond counter. *)

Limb == 2^16

\* a time of n microseconds, n < 2^31
TimeOf(n) == [hi |-> n \div Limb, lo |-> n % Limb]

\* the counter d microseconds later
TimeAdd(t, d) == [hi |-> t.hi + ((t.lo + d) \div Limb), lo |-> (t.lo + d) % Limb]

\* time_us_32(): the low 32 bits of the counter
time_us_32(t) == [hi |-> t.hi % Limb, lo |-> t.lo]

\* a - b without the wrap: 0 when the counter reads less than b
Sub32NoWrap(a, b) ==
    IF a.hi < b.hi \/ (a.hi = b.hi /\ a.lo < b.lo)
    THEN [hi |-> 0, lo |-> 0]
    ELSE LET borrow == IF a.lo < b.lo THEN 1 ELSE 0
         IN  [hi |-> a.hi - b.hi - borrow, lo |-> (a.lo - b.lo) % Limb]

\* a - b on uint32_t: modulo 2^32, with the borrow between the limbs
Sub32(a, b) ==
    LET borrow == IF a.lo < b.lo THEN 1 ELSE 0
    IN  [hi |-> (a.hi - b.hi - borrow) % Limb, lo |-> (a.lo - b.lo) % Limb]

\* a > b on uint32_t
Gt32(a, b) == a.hi > b.hi \/ (a.hi = b.hi /\ a.lo > b.lo)

\* absolute_time_diff_us(from, to): to - from as int64_t
absolute_time_diff_us(from, to) == (to.hi - from.hi) * Limb + (to.lo - from.lo)

----------------------------------------------------------------------------
(* float: sign s, 24-bit significand m and exponent e, value s * m * 2^(e-23); *)
(* m = 0 is zero, and otherwise 2^23 <= m < 2^24.                           *)

Flt(s, m, e) == [s |-> s, m |-> m, e |-> e]

\* the e with 2^e <= n/den < 2^(e+1), for n > 0
Exponent(n, den) ==
    IF n >= den
    THEN CHOOSE e \in 0..17 : den * 2^e <= n /\ n < den * 2^(e+1)
    ELSE -(CHOOSE k \in 1..17 : n * 2^k >= den /\ n * 2^(k-1) < den)

\* n / den rounded to the nearest float, ties to even: what `duration / 58.0`
\* stored into a float gives.  The quotient is first rounded to double, which
\* changes nothing: n/58 with n < 2^18 is either a float or further than 2^-54
\* (relative) from the midpoint of two floats.
FloatDiv(n, den) ==
    IF n = 0 THEN Flt(1, 0, 0)
    ELSE LET e   == Exponent(n, den)
             num == n * 2^(23 - e)
             q   == num \div den
             r   == num % den
             m   == IF 2 * r > den \/ (2 * r = den /\ q % 2 = 1) THEN q + 1 ELSE q
         IN  IF m = 2^24 THEN Flt(1, 2^23, e + 1) ELSE Flt(1, m, e)

\* |a| < |b|
MagLt(a, b) ==
    IF a.m = 0 THEN b.m # 0
    ELSE b.m # 0 /\ (a.e < b.e \/ (a.e = b.e /\ a.m < b.m))

\* a < b
FltLt(a, b) ==
    CASE a.s < 0 /\ b.s > 0 -> TRUE
      [] a.s > 0 /\ b.s < 0 -> FALSE
      [] a.s > 0 /\ b.s > 0 -> MagLt(a, b)
      [] OTHER              -> MagLt(b, a)

\* the literals of the source
MinusOne    == Flt(-1, 2^23, 0)          \* -1.0
One         == Flt(1, 2^23, 0)           \* 1.0
FourHundred == Flt(1, 400 * 2^15, 8)     \* 400.0

----------------------------------------------------------------------------
(* The environment: how far the counter moves between two polls, and where *)
(* the counter stands when main() enters its loop.  The counter moves in    *)
(* sleep_us(), in sleep_ms() and from one gpio_get() of a loop to the next; *)
(* the statements in between read it where the last of these left it.  The  *)
(* echo line may be at either level at every gpio_get().                    *)

\* const uint32_t timeout
timeout == 38000

\* microseconds from one poll of the first wait to the next
RiseDeltas == {0, 14800, 23200, 38001}

\* microseconds from one poll of the second wait to the next
FallDeltas == {0, 1, 57, 580, 23143, 14800, 38001}

\* the counter on entry to the loop of main(): shortly after boot, and shortly
\* before its low 32 bits wrap (2^32 - 20, 2^32 - 30000, 2^32 - 70000)
BootTimes == { TimeOf(200000),
               [hi |-> Limb - 1, lo |-> Limb - 20],
               [hi |-> Limb - 1, lo |-> Limb - 30000],
               [hi |-> Limb - 2, lo |-> Limb - 4464] }

NoTime == TimeOf(0)
NoFlt  == Flt(1, 0, 0)

Init ==
    /\ pc = "l101"
    /\ now \in BootTimes
    /\ trig = FALSE
    /\ trigWrites = <<>>
    /\ start_time = NoTime
    /\ start = NoTime
    /\ polls = 0
    /\ sawHigh = FALSE
    /\ echo = FALSE
    /\ duration = 0
    /\ retSite = 0
    /\ ret = NoFlt
    /\ distance = NoFlt
    /\ console = 0
    /\ calls = 0
    /\ waitAt = [first |-> NoTime, second |-> NoTime]
    /\ tape = [reads |-> <<>>, ret |-> NoFlt]
    /\ reads = <<>>

----------------------------------------------------------------------------
(* get_reading_sensor() *)

\* write_trig_pin(state): gpio_put(TRIG_PIN, state)
write_trig_pin(state) ==
    /\ trig' = state
    /\ trigWrites' = Append(trigWrites, state)

\* main, line 101: the call is made
Call ==
    /\ pc = "l101"
    /\ calls < MaxCalls
    /\ pc' = "l36"
    /\ calls' = calls + 1
    /\ trigWrites' = <<>>
    /\ sawHigh' = FALSE
    /\ UNCHANGED <<now, trig, start_time, start, polls, duration, retSite, ret,
                   distance, console>>
    /\ UNCHANGED waitAt
    /\ echo' = FALSE

\* line 36: write_trig_pin(0)
TrigLow1 ==
    /\ pc = "l36"
    /\ write_trig_pin(FALSE)
    /\ pc' = "l37"
    /\ UNCHANGED <<now, start_time, start, polls, sawHigh, duration, retSite, ret,
                   distance, console, calls>>
    /\ UNCHANGED <<waitAt, echo>>

\* line 37: sleep_us(2)
Sleep2 ==
    /\ pc = "l37"
    /\ now' = TimeAdd(now, 2)
    /\ pc' = "l38"
    /\ UNCHANGED <<trig, trigWrites, start_time, start, polls, sawHigh, duration,
                   retSite, ret, distance, console, calls>>
    /\ UNCHANGED <<waitAt, echo>>

\* line 38: write_trig_pin(1)
TrigHigh ==
    /\ pc = "l38"
    /\ write_trig_pin(TRUE)
    /\ pc' = "l39"
    /\ UNCHANGED <<now, start_time, start, polls, sawHigh, duration, retSite, ret,
                   distance, console, calls>>
    /\ UNCHANGED <<waitAt, echo>>

\* line 39: sleep_us(10)
Sleep10 ==
    /\ pc = "l39"
    /\ now' = TimeAdd(now, 10)
    /\ pc' = "l40"
    /\ UNCHANGED <<trig, trigWrites, start_time, start, polls, sawHigh, duration,
                   retSite, ret, distance, console, calls>>
    /\ UNCHANGED <<waitAt, echo>>

\* line 40 left out: the pulse is never ended
TrigLow2Missing ==
    /\ pc = "l40"
    /\ pc' = "l43"
    /\ UNCHANGED <<now, trig, trigWrites, start_time, start, polls, sawHigh, duration,
                   retSite, ret, distance, console, calls, waitAt, echo>>

\* line 40: write_trig_pin(0)
TrigLow2 ==
    /\ pc = "l40"
    /\ write_trig_pin(FALSE)
    /\ pc' = "l43"
    /\ UNCHANGED <<now, start_time, start, polls, sawHigh, duration, retSite, ret,
                   distance, console, calls>>
    /\ UNCHANGED <<waitAt, echo>>

\* line 43: uint32_t start_time = time_us_32()
ReadStart1 ==
    /\ pc = "l43"
    /\ start_time' = time_us_32(now)
    /\ polls' = 0
    /\ pc' = "l44"
    /\ UNCHANGED <<now, trig, trigWrites, start, sawHigh, duration, retSite, ret,
                   distance, console, calls>>
    /\ waitAt' = [waitAt EXCEPT !.first = now]
    /\ UNCHANGED echo

\* the clock step an iteration may see: any while the loop is young, and one
\* past the timeout after that
StepAllowed(d) == polls < MaxPolls \/ d > timeout

\* line 44: while (!gpio_get(ECHO_PIN)), which d microseconds after the last
\* read finds the echo line at `level`
EchoPoll1(d, level) ==
    /\ pc = "l44"
    /\ StepAllowed(d)
    /\ now' = TimeAdd(now, d)
    /\ sawHigh' = level
    /\ pc' = IF level THEN "l51" ELSE "l45"
    /\ polls' = polls + 1
    /\ UNCHANGED <<trig, trigWrites, start_time, start, duration, retSite, ret,
                   distance, console, calls>>
    /\ UNCHANGED waitAt
    /\ echo' = level

\* the timeout test left out
TimedOutNever == FALSE

\* (time_us_32() - start_time) > timeout
TimedOut == Gt32(Sub32(time_us_32(now), start_time), TimeOf(timeout))

\* return x, by the return statement of source line `site`
Return(x, site) ==
    /\ ret' = x
    /\ retSite' = site
    /\ pc' = "ret"

\* lines 45-47 with `break` for `return -1.0`
TimeCheck1Break ==
    /\ pc = "l45"
    /\ pc' = IF TimedOut THEN "l51" ELSE "l44"
    /\ UNCHANGED <<now, trig, trigWrites, start_time, start, polls, sawHigh, duration,
                   retSite, ret, distance, console, calls, waitAt, echo>>

\* lines 45-47: the timeout test of the first wait
TimeCheck1 ==
    /\ pc = "l45"
    /\ IF TimedOut
       THEN Return(MinusOne, 46)
       ELSE pc' = "l44" /\ UNCHANGED <<ret, retSite>>
    /\ UNCHANGED <<now, trig, trigWrites, start_time, start, polls, sawHigh, duration,
                   distance, console, calls>>
    /\ UNCHANGED <<waitAt, echo>>

\* line 51: absolute_time_t start = get_absolute_time()
CaptureStart ==
    /\ pc = "l51"
    /\ start' = now
    /\ pc' = "l54"
    /\ UNCHANGED <<now, trig, trigWrites, start_time, polls, sawHigh, duration, retSite,
                   ret, distance, console, calls>>
    /\ UNCHANGED <<waitAt, echo>>

\* line 54 left out: start_time still holds the start of the first wait
ReadStart2Stale ==
    /\ pc = "l54"
    /\ polls' = 0
    /\ pc' = "l55"
    /\ waitAt' = [waitAt EXCEPT !.second = now]
    /\ UNCHANGED <<now, trig, trigWrites, start_time, start, sawHigh, duration, retSite,
                   ret, distance, console, calls, echo>>

\* line 54: start_time = time_us_32()
ReadStart2 ==
    /\ pc = "l54"
    /\ start_time' = time_us_32(now)
    /\ polls' = 0
    /\ pc' = "l55"
    /\ UNCHANGED <<now, trig, trigWrites, start, sawHigh, duration, retSite, ret,
                   distance, console, calls>>
    /\ waitAt' = [waitAt EXCEPT !.second = now]
    /\ UNCHANGED echo

\* line 55: while (gpio_get(ECHO_PIN)), which d microseconds after the last
\* read finds the echo line at `level`
EchoPoll2(d, level) ==
    /\ pc = "l55"
    /\ StepAllowed(d)
    /\ now' = TimeAdd(now, d)
    /\ pc' = IF level THEN "l56" ELSE "l62"
    /\ polls' = polls + 1
    /\ UNCHANGED <<trig, trigWrites, start_time, start, sawHigh, duration, retSite, ret,
                   distance, console, calls>>
    /\ UNCHANGED waitAt
    /\ echo' = level

\* lines 56-58 with `return 0` for `return -1.0`
TimeCheck2ReturnsZero ==
    /\ pc = "l56"
    /\ IF TimedOut
       THEN Return(NoFlt, 57)
       ELSE pc' = "l55" /\ UNCHANGED <<ret, retSite>>
    /\ UNCHANGED <<now, trig, trigWrites, start_time, start, polls, sawHigh, duration,
                   distance, console, calls, waitAt, echo>>

\* lines 56-58: the timeout test of the second wait
TimeCheck2 ==
    /\ pc = "l56"
    /\ IF TimedOut
       THEN Return(MinusOne, 57)
       ELSE pc' = "l55" /\ UNCHANGED <<ret, retSite>>
    /\ UNCHANGED <<now, trig, trigWrites, start_time, start, polls, sawHigh, duration,
                   distance, console, calls>>
    /\ UNCHANGED <<waitAt, echo>>

\* distance <= 1.0 || distance >= 400.0
UnrealisticStrict(x) == ~FltLt(One, x) \/ ~FltLt(x, FourHundred)

\* distance < 1.0, the upper limit left out
UnrealisticLowOnly(x) == FltLt(x, One)

\* distance < 1.0 || distance > 400.0
Unrealistic(x) == FltLt(x, One) \/ FltLt(FourHundred, x)

\* lines 62-75 with a warm-up flag: the first reading after boot is thrown away
ConvertFirstDiscarded ==
    /\ pc = "l62"
    /\ duration' = absolute_time_diff_us(start, now)
    /\ LET x == FloatDiv(duration', 58)
       IN  IF calls = 1 \/ Unrealistic(x) THEN Return(MinusOne, 72) ELSE Return(x, 75)
    /\ UNCHANGED <<now, trig, trigWrites, start_time, start, polls, sawHigh, distance,
                   console, calls, waitAt, echo>>

\* lines 62-75: end, duration, distance, the range test and the return
Convert ==
    /\ pc = "l62"
    /\ duration' = absolute_time_diff_us(start, now)
    /\ LET x == FloatDiv(duration', 58)
       IN  IF Unrealistic(x) THEN Return(MinusOne, 72) ELSE Return(x, 75)
    /\ UNCHANGED <<now, trig, trigWrites, start_time, start, polls, sawHigh, distance,
                   console, calls>>
    /\ UNCHANGED <<waitAt, echo>>

----------------------------------------------------------------------------
(* main() *)

\* line 101 followed by `if (distance < 0) break;`: a failed reading ends the loop
AssignStopsOnFailure ==
    /\ pc = "ret"
    /\ distance' = ret
    /\ ret' = NoFlt
    /\ retSite' = 0
    /\ start_time' = NoTime
    /\ start' = NoTime
    /\ duration' = 0
    /\ polls' = 0
    /\ sawHigh' = FALSE
    /\ echo' = FALSE
    /\ waitAt' = [first |-> NoTime, second |-> NoTime]
    /\ pc' = IF ret = MinusOne THEN "exit" ELSE "l102"
    /\ UNCHANGED <<now, trig, trigWrites, console, calls>>

\* line 101: float distance = get_reading_sensor(); the callee's frame is gone
Assign ==
    /\ pc = "ret"
    /\ distance' = ret
    /\ ret' = NoFlt
    /\ retSite' = 0
    /\ start_time' = NoTime
    /\ start' = NoTime
    /\ duration' = 0
    /\ polls' = 0
    /\ sawHigh' = FALSE
    /\ pc' = "l102"
    /\ UNCHANGED <<now, trig, trigWrites, console, calls>>
    /\ waitAt' = [first |-> NoTime, second |-> NoTime]
    /\ echo' = FALSE

\* line 102: printf("Distance: %.2f cm\n", distance): one more line, showing
\* the value `distance` holds at l102
PrintLine ==
    /\ pc = "l102"
    /\ console' = console + 1
    /\ pc' = "l103"
    /\ UNCHANGED <<now, trig, trigWrites, start_time, start, polls, sawHigh, duration,
                   retSite, ret, distance, calls>>
    /\ UNCHANGED <<waitAt, echo>>

\* the first counter value at or after t whose low limb is 0
NextWake(t) == IF t.lo = 0 THEN t ELSE [hi |-> t.hi + 1, lo |-> 0]

\* line 103: sleep_ms(1000), which returns no earlier than asked; then the loop
\* body starts over, with a new `distance`
Pause ==
    /\ pc = "l103"
    /\ now' = NextWake(TimeAdd(now, 1000 * 1000))
    /\ distance' = NoFlt
    /\ pc' = "l101"
    /\ UNCHANGED <<trig, trigWrites, start_time, start, polls, sawHigh, duration,
                   retSite, ret, console, calls>>
    /\ UNCHANGED <<waitAt, echo>>

Next ==
    \/ Call /\ UNCHANGED hist
    \/ TrigLow1 /\ UNCHANGED hist
    \/ Sleep2 /\ UNCHANGED hist
    \/ TrigHigh /\ UNCHANGED hist
    \/ Sleep10 /\ UNCHANGED hist
    \/ TrigLow2 /\ UNCHANGED hist
    \/ ReadStart1 /\ UNCHANGED hist
    \/ \E d \in RiseDeltas, level \in BOOLEAN : EchoPoll1(d, level) /\ UNCHANGED hist
    \/ TimeCheck1 /\ UNCHANGED hist
    \/ CaptureStart /\ UNCHANGED hist
    \/ ReadStart2 /\ UNCHANGED hist
    \/ \E d \in FallDeltas, level \in BOOLEAN : EchoPoll2(d, level) /\ UNCHANGED hist
    \/ TimeCheck2 /\ UNCHANGED hist
    \/ Convert /\ UNCHANGED hist
    \/ Assign /\ UNCHANGED hist
    \/ PrintLine /\ UNCHANGED hist
    \/ Pause /\ UNCHANGED hist

Spec == Init /\ [][Next]_vars

\* the behaviours checked for progress start shortly after boot, or 30,000
\* microseconds before the low 32 bits of the counter wrap
InitLive == Init /\ now \in {TimeOf(200000), [hi |-> Limb - 1, lo |-> Limb - 30000]}

\* the one thread of control always takes its next step
SpecLive == InitLive /\ [][Next]_vars /\ WF_vars(Next)

----------------------------------------------------------------------------
(* Two calls on the same readings.  The first call of a behaviour polls a   *)
(* free environment and its readings are kept; every later call is given   *)
(* the readings of the call before it: the same clock steps and the same    *)
(* echo levels, in the same order.                                          *)

\* clock steps of the recorded calls
DetRiseDeltas == {0, 38001}
DetFallDeltas == {1, 57, 23143, 38001}

\* the poll reads <<d, level>>: recorded, and in a later call the reading the
\* call before it had at the same place
Reading(d, level) ==
    /\ calls > 1 =>
          /\ Len(reads) < Len(tape.reads)
          /\ tape.reads[Len(reads) + 1] = <<d, level>>
    /\ reads' = Append(reads, <<d, level>>)
    /\ UNCHANGED tape

\* the call is over: its readings and its result are kept for the next one
Returned ==
    /\ tape' = [reads |-> reads, ret |-> ret]
    /\ reads' = <<>>

NextDet ==
    \/ Call /\ UNCHANGED hist
    \/ TrigLow1 /\ UNCHANGED hist
    \/ Sleep2 /\ UNCHANGED hist
    \/ TrigHigh /\ UNCHANGED hist
    \/ Sleep10 /\ UNCHANGED hist
    \/ TrigLow2 /\ UNCHANGED hist
    \/ ReadStart1 /\ UNCHANGED hist
    \/ \E d \in DetRiseDeltas, level \in BOOLEAN : EchoPoll1(d, level) /\ Reading(d, level)
    \/ TimeCheck1 /\ UNCHANGED hist
    \/ CaptureStart /\ UNCHANGED hist
    \/ ReadStart2 /\ UNCHANGED hist
    \/ \E d \in DetFallDeltas, level \in BOOLEAN : EchoPoll2(d, level) /\ Reading(d, level)
    \/ TimeCheck2 /\ UNCHANGED hist
    \/ Convert /\ UNCHANGED hist
    \/ Assign /\ Returned
    \/ PrintLine /\ UNCHANGED hist
    \/ Pause /\ UNCHANGED hist

SpecDet == Init /\ [][NextDet]_vars

----------------------------------------------------------------------------
(* What the properties below speak of. *)

\* microseconds since start_time was read for the first / the second wait,
\* on the full 64-bit counter
Elapsed1 == absolute_time_diff_us(waitAt.first, now)
Elapsed2 == absolute_time_diff_us(waitAt.second, now)

\* the call has passed its trigger pulse
PulseDone == pc \in {"l43", "l44", "l45", "l51", "l54", "l55", "l56", "l62",
                     "ret", "l102", "l103"}

\* the call is in, or past, its second wait
PastFirstWait == pc \in {"l51", "l54", "l55", "l56", "l62"}

\* the call has returned from its conversion (lines 62-75)
Converted == pc = "ret" /\ retSite \in {72, 75}

\* 1.0 <= x <= 400.0, read off the bits of x
InRange(x) ==
    /\ x.s = 1
    /\ x.m >= 2^23 /\ x.m < 2^24
    /\ x.e >= 0
    /\ x.e < 8 \/ (x.e = 8 /\ x.m <= 400 * 2^15)

\* x is within half a unit in the last place of n / den
Near(x, n, den) ==
    /\ x.s = 1
    /\ x.m >= 2^23 /\ x.m < 2^24
    /\ x.e \in 0..17
    /\ n < 2^(7 + x.e)
    /\ den * x.m - n * 2^(23 - x.e) \in -(den \div 2) .. (den \div 2)

\* a value get_reading_sensor() may return
Sentinel(x) == x = MinusOne
ValidReading(x) == Sentinel(x) \/ InRange(x)

----------------------------------------------------------------------------
(* C1: in every call, whatever its outcome, the levels written to the       *)
(* trigger line are low, high, low in that order and nothing more: no write *)
(* while polling or on a return path, and the line is low at every return.  *)
C1_TriggerLowHighLow ==
    /\ pc = "l36" => trigWrites = <<>>
    /\ pc \in {"l37", "l38"} => trigWrites = <<FALSE>> /\ ~trig
    /\ pc \in {"l39", "l40"} => trigWrites = <<FALSE, TRUE>> /\ trig
    /\ PulseDone => trigWrites = <<FALSE, TRUE, FALSE>> /\ ~trig

\* a second call has timed out in its second wait, after polling in both
C1_Witness ==
    /\ pc = "ret" /\ retSite = 57 /\ calls = 2 /\ polls > 1
    /\ trigWrites = <<FALSE, TRUE, FALSE>>

C4_InRangeReturnsDistance ==
    (Converted /\ duration >= 58 /\ duration <= 23200) =>
        /\ retSite = 75
        /\ Near(ret, duration, 58)
        /\ duration = 58 => ret = One
        /\ duration = 580 => ret = Flt(1, 10 * 2^20, 3)
        /\ duration = 23200 => ret = FourHundred

\* the boundary duration 23,200 was measured
C4_Witness == Converted /\ duration = 23200 /\ retSite = 75

(* C5: a measured duration d <= 57 or d >= 23,201 microseconds, taken when  *)
(* neither wait timed out, is rejected: the call returns the sentinel -1.0  *)
(* from the range test, never the computed distance.                        *)
C5_OutOfRangeReturnsSentinel ==
    (Converted /\ (duration <= 57 \/ duration >= 23201)) =>
        retSite = 72 /\ ret = MinusOne

\* a duration between 23,201 microseconds and the timeout was measured
C5_Witness == Converted /\ duration >= 23201 /\ duration <= timeout

(* C6: every value get_reading_sensor() returns, and every value a          *)
(* "Distance:" line shows, is the sentinel -1.0 or a distance in            *)
(* [1.0, 400.0]; the three failing returns all give -1.0.                   *)
C6_SentinelOrInRange ==
    /\ pc = "ret" =>
          /\ retSite \in {46, 57, 72, 75}
          /\ ValidReading(ret)
          /\ retSite \in {46, 57, 72} => Sentinel(ret)
          /\ retSite = 75 => InRange(ret)
    /\ pc = "l102" => ValidReading(distance)

\* a line with the boundary distance 400.0 is about to be printed
C6_Witness == pc = "l102" /\ distance = FourHundred

(* C7: the loop of main() repeats one call, one "Distance:" line and one    *)
(* pause of at least 1000 ms: each cycle prints exactly one line for its    *)
(* one call, a failed reading is printed and paused after like any other,   *)
(* a call is made only from the top of the loop and the top is reached only *)
(* from the pause, and after every return, failed or not, a further call    *)
(* follows (until the MaxCalls calls of the model are used up).             *)
C7_LoopNeverHalts ==
    /\ [](console = calls - (IF pc \in {"l101", "l103"} THEN 0 ELSE 1))
    /\ [][pc = "l103" =>
             pc' = "l101" /\ absolute_time_diff_us(now, now') >= 1000 * 1000]_vars
    /\ [][pc' = "l36" => pc = "l101" /\ calls' = calls + 1]_vars
    /\ [][pc' = "l101" => pc = "l103"]_vars
    /\ (pc = "ret") ~> (pc = "l36" \/ (pc = "l101" /\ calls = MaxCalls))

\* the line of a failed reading has been printed and the pause is next
C7_Witness == pc = "l103" /\ distance = MinusOne /\ console = calls /\ calls = 1

C10_WrapSafeElapsed ==
    /\ pc = "l45" => (TimedOut <=> Elapsed1 > timeout)
    /\ pc = "l56" => (TimedOut <=> Elapsed2 > timeout)

\* the second wait tests the time after the low 32 bits have wrapped, and
\* does not time out
C10_Witness ==
    /\ pc = "l56"
    /\ Gt32(start_time, time_us_32(now))
    /\ ~TimedOut
    /\ Elapsed2 > 0

====
